---- MODULE Spec2Model ----
(***************************************************************************)
(* State-machine model of change-timeseries.py: a client session that      *)
(* enters the module through one of its entry points (the two pipelines    *)
(* main_read_file and example_main_synthetic, or a direct call of          *)
(* convert_to_datetime, extract_parts or display) and runs it to the end.  *)
(*                                                                         *)
(* Python values.  A DataFrame is a record                                 *)
(*   [type, id, columns, cols]                                             *)
(* where columns is the ordered list of column names and cols the          *)
(* parallel list of columns [dtype, values]; id is the object's identity.  *)
(* None is the record NoneObj.  A string cell is a TLA+ string; a          *)
(* datetime64 cell is the integer number of minutes since                  *)
(* 1970-01-01 00:00:00 (the model's time resolution).  An exception is a   *)
(* record [type, msg]: the Python exception class and a tag for the        *)
(* message the code formats.                                               *)
(***************************************************************************)
EXTENDS Integers, Sequences, FiniteSets, TLC

VARIABLES
    entry,          \* the entry point of this session
    pc,             \* the next call of the entry point, or "done" / "raised"
    fs,             \* the file at the path given to --file: [exists, lines]
    genArgs,        \* arguments of create_periodic_dataframe
    plotArgs,       \* arguments category, kind of display
    input_df,       \* local input_df of the pipelines; argument of convert_to_datetime
    transformed_df, \* local transformed_df; argument of extract_parts
    result_df,      \* local result_df; argument of display
    exc,            \* the exception that ended the session, or NoExc
    stdout,         \* what print() has written, in order
    plots,          \* invocations of the plotting collaborator, in order
    calls,          \* history: the calls made so far, each with its argument as passed
    nextId          \* identity of the next object to be constructed

vars == <<entry, pc, fs, genArgs, plotArgs, input_df, transformed_df, result_df,
          exc, stdout, plots, calls, nextId>>

-----------------------------------------------------------------------------
(* Bounds of the model *)

\* longest table handed to a direct call of convert_to_datetime / extract_parts
MaxRows == 2
\* most lines (header line included) of the file read by load_dataframe_from_file
MaxLines == 3
\* largest `periods` tried when the generator's arguments are varied
MaxPeriods == 3

-----------------------------------------------------------------------------
(* Calendar arithmetic of the datetime library *)

MinutesPerHour == 60
MinutesPerDay == 1440

IsLeapYear(y) == (y % 4 = 0 /\ y % 100 # 0) \/ y % 400 = 0

DaysInMonth(y, m) ==
    IF m = 2 THEN (IF IsLeapYear(y) THEN 29 ELSE 28)
    ELSE IF m \in {4, 6, 9, 11} THEN 30 ELSE 31

\* days of the year that precede the first day of month m
RECURSIVE DaysBeforeMonth(_, _)
DaysBeforeMonth(y, m) ==
    IF m <= 1 THEN 0 ELSE DaysBeforeMonth(y, m - 1) + DaysInMonth(y, m - 1)

\* leap years in 1 .. y (proleptic Gregorian)
LeapsThrough(y) == (y \div 4) - (y \div 100) + (y \div 400)

\* days from 1970-01-01 to y-m-d: year by year, then month by month
DaysFromCivil(y, m, d) ==
    (y - 1970) * 365 + (LeapsThrough(y - 1) - LeapsThrough(1969))
        + DaysBeforeMonth(y, m) + (d - 1)

\* the inverse, by 400-year eras with the year beginning in March
CivilFromDays(z) ==
    LET s   == z + 719468
        era == s \div 146097
        doe == s - era * 146097
        yoe == (doe - (doe \div 1460) + (doe \div 36524) - (doe \div 146096)) \div 365
        doy == doe - (365 * yoe + (yoe \div 4) - (yoe \div 100))
        mp  == (5 * doy + 2) \div 153
        d   == doy - ((153 * mp + 2) \div 5) + 1
        m   == IF mp < 10 THEN mp + 3 ELSE mp - 9
        y   == yoe + era * 400 + (IF m <= 2 THEN 1 ELSE 0)
    IN  [year |-> y, month |-> m, day |-> d]

\* month offsets of the day-of-week computation
sakamoto_arr == <<0, 3, 2, 5, 0, 3, 5, 1, 4, 6, 2, 4>>

\* mutant: the day-of-week left in the convention 0 = Sunday
dayofweek_sunday0(y, m, d) ==
    LET yy == IF m < 3 THEN y - 1 ELSE y
    IN  (yy + (yy \div 4) - (yy \div 100) + (yy \div 400) + sakamoto_arr[m] + d) % 7

\* Series.dt.dayofweek of a calendar date: 0 = Monday ... 6 = Sunday
dayofweek(y, m, d) ==
    LET yy  == IF m < 3 THEN y - 1 ELSE y
        day == (yy + (yy \div 4) - (yy \div 100) + (yy \div 400)
                   + sakamoto_arr[m] + d) % 7
    IN  (day + 6) % 7

\* Series.dt.quarter of a month number
quarter(m) == ((m - 1) \div 3) + 1

\* the accessor fields of one datetime64 value (minutes since the epoch)
dt_day(ts)     == CivilFromDays(ts \div MinutesPerDay).day
dt_month(ts)   == CivilFromDays(ts \div MinutesPerDay).month
dt_year(ts)    == CivilFromDays(ts \div MinutesPerDay).year
dt_hour(ts)    == (ts % MinutesPerDay) \div MinutesPerHour
dt_weekday(ts) ==
    LET c == CivilFromDays(ts \div MinutesPerDay) IN dayofweek(c.year, c.month, c.day)
dt_quarter(ts) == quarter(dt_month(ts))

-----------------------------------------------------------------------------
(* Strings and their parsing *)

\* the numeric fields <<year, month, day, hour, minute>> the date-time parser
\* reads in a string of the form "YYYY-MM-DD HH:MM:00"; <<>> when the string
\* has no such form
Tokens(s) ==
    CASE s = "2025-09-16 02:35:00" -> <<2025, 9, 16, 2, 35>>
      [] s = "2024-02-29 23:59:00" -> <<2024, 2, 29, 23, 59>>
      [] s = "1969-12-31 00:00:00" -> <<1969, 12, 31, 0, 0>>
      [] s = "2023-12-31 12:00:00" -> <<2023, 12, 31, 12, 0>>
      [] s = "2024-01-01 00:00:00" -> <<2024, 1, 1, 0, 0>>
      [] s = "2025-06-30 18:30:00" -> <<2025, 6, 30, 18, 30>>
      [] s = "2025-02-30 10:00:00" -> <<2025, 2, 30, 10, 0>>
      [] s = "2025-13-01 00:00:00" -> <<2025, 13, 1, 0, 0>>
      [] OTHER -> <<>>

\* does the date-time parser accept the string
IsParseable(s) ==
    LET t == Tokens(s) IN
    /\ Len(t) = 5
    /\ t[2] \in 1..12
    /\ t[3] \in 1..DaysInMonth(t[1], t[2])
    /\ t[4] \in 0..23
    /\ t[5] \in 0..59

\* the datetime64 value of a parseable string
ParseDatetime(s) ==
    LET t == Tokens(s) IN
    DaysFromCivil(t[1], t[2], t[3]) * MinutesPerDay + t[4] * MinutesPerHour + t[5]

\* the step, in minutes, of a frequency string; 0 when it is no frequency
FreqMinutes(f) ==
    CASE f = "14h" -> 14 * MinutesPerHour
      [] f = "1D"  -> MinutesPerDay
      [] f = "90min" -> 90
      [] OTHER -> 0

-----------------------------------------------------------------------------
(* Python values *)

NoExc == [type |-> "None", msg |-> ""]

Exception(type, msg) == [type |-> type, msg |-> msg]

NoneObj == [type |-> "NoneType", id |-> 0, columns |-> <<>>, cols |-> <<>>]

\* a local variable that has not been assigned
Unbound == [type |-> "unbound", id |-> 0, columns |-> <<>>, cols |-> <<>>]

Column(dtype, values) == [dtype |-> dtype, values |-> values]

DataFrame(id, columns, cols) ==
    [type |-> "DataFrame", id |-> id, columns |-> columns, cols |-> cols]

IsDataFrame(o) == o.type = "DataFrame"

\* name in df.columns
HasColumn(df, name) == \E i \in 1..Len(df.columns) : df.columns[i] = name

\* df[name]: the first column of that name
GetColumn(df, name) ==
    df.cols[CHOOSE i \in 1..Len(df.columns) :
                /\ df.columns[i] = name
                /\ \A j \in 1..(i - 1) : df.columns[j] # name]

\* df[name] = column: replaces the column of that name, or appends a new one
SetColumn(df, name, column) ==
    IF HasColumn(df, name)
    THEN [df EXCEPT !.cols =
            [i \in 1..Len(df.cols) |->
                IF df.columns[i] = name THEN column ELSE df.cols[i]]]
    ELSE [df EXCEPT !.columns = Append(df.columns, name),
                    !.cols = Append(df.cols, column)]

\* df.copy(): the same table as a new object
Copy(df, id) == [df EXCEPT !.id = id]

\* number of rows of a table
NRows(df) == IF Len(df.cols) = 0 THEN 0 ELSE Len(df.cols[1].values)

\* pd.api.types.is_datetime64_any_dtype
is_datetime64_any_dtype(column) == column.dtype = "datetime64[ns]"

\* the outcome of a call: the value returned (NoneObj when it raised), the
\* exception raised (NoExc when it returned), the argument object as the call
\* leaves it, what the call printed, what it plotted, and how many objects it
\* constructed
Outcome(ret, e, arg, out, plt, allocs) ==
    [ret |-> ret, exc |-> e, arg |-> arg, out |-> out, plt |-> plt, allocs |-> allocs]

Returns(ret, arg, allocs) == Outcome(ret, NoExc, arg, <<>>, <<>>, allocs)

Raises(e, arg, allocs) == Outcome(NoneObj, e, arg, <<>>, <<>>, allocs)

\* any attribute access on None
NoneAttributeError == Exception("AttributeError", "NoneType object has no attribute")

-----------------------------------------------------------------------------
(* load_dataframe_from_file *)

\* the cell written for a missing value
NaN == "nan"

\* field j of a line, NaN where the line is shorter than the header
FieldOf(line, j) == IF j <= Len(line) THEN line[j] ELSE NaN

\* pd.read_csv(path) of a file that exists.  The first line is the header;
\* no line and a line with more fields than the header are not decodable;
\* every cell of this model is text, so every column is dtype object
read_csv(lines, id) ==
    IF Len(lines) = 0
    THEN Raises(Exception("EmptyDataError", "No columns to parse from file"), NoneObj, 0)
    ELSE IF \E i \in 2..Len(lines) : Len(lines[i]) > Len(lines[1])
    THEN Raises(Exception("ParserError", "Error tokenizing data"), NoneObj, 0)
    ELSE Returns(
            DataFrame(id, lines[1],
                [j \in 1..Len(lines[1]) |->
                    Column("object",
                           [i \in 1..(Len(lines) - 1) |-> FieldOf(lines[i + 1], j)])]),
            NoneObj, 1)

\* mutant: the shape check reads the row count, df.shape[0], instead of the
\* column count
load_dataframe_from_file_rows(file, id) ==
    IF ~file.exists
    THEN Raises(Exception("FileNotFoundError", "file not found"), NoneObj, 0)
    ELSE LET r == read_csv(file.lines, id) IN
         IF r.exc # NoExc
         THEN Raises(Exception("ValueError", "CSV read error"), NoneObj, 0)
         ELSE IF NRows(r.ret) # 1
         THEN Raises(Exception("ValueError", "expected exactly one column"), NoneObj, 1)
         ELSE Returns([r.ret EXCEPT !.columns = <<"timestamp">>], NoneObj, 1)

load_dataframe_from_file(file, id) ==
    IF ~file.exists
    THEN Raises(Exception("FileNotFoundError", "file not found"), NoneObj, 0)
    ELSE LET r == read_csv(file.lines, id) IN
         IF r.exc # NoExc
         THEN Raises(Exception("ValueError", "CSV read error"), NoneObj, 0)
         ELSE IF Len(r.ret.columns) # 1
         THEN Raises(Exception("ValueError", "expected exactly one column"), NoneObj, 1)
         ELSE Returns([r.ret EXCEPT !.columns = <<"timestamp">>], NoneObj, 1)

-----------------------------------------------------------------------------
(* create_periodic_dataframe *)

\* pd.date_range(start=, periods=, freq=): the values, or the reason it raises
date_range_fails(start, periods, freq) ==
    \/ ~IsParseable(start)
    \/ FreqMinutes(freq) = 0
    \/ periods < 0

\* mutant: the range leaves out its start point
date_range_open_start(start, periods, freq) ==
    [i \in 1..periods |-> ParseDatetime(start) + i * FreqMinutes(freq)]

date_range(start, periods, freq) ==
    [i \in 1..periods |-> ParseDatetime(start) + (i - 1) * FreqMinutes(freq)]

Diagnostic == [text |-> "error creating timestamps", table |-> NoneObj]

\* mutant: the handler re-raises what it caught
create_periodic_dataframe_reraise(start, periods, freq, id) ==
    IF date_range_fails(start, periods, freq)
    THEN Outcome(NoneObj, Exception("ValueError", "date_range failed"), NoneObj,
                 <<Diagnostic>>, <<>>, 0)
    ELSE Returns(
            DataFrame(id, <<"timestamp">>,
                      << Column("datetime64[ns]", date_range(start, periods, freq)) >>),
            NoneObj, 1)

create_periodic_dataframe(start, periods, freq, id) ==
    IF date_range_fails(start, periods, freq)
    THEN Outcome(NoneObj, NoExc, NoneObj, <<Diagnostic>>, <<>>, 0)
    ELSE Returns(
            DataFrame(id, <<"timestamp">>,
                      << Column("datetime64[ns]", date_range(start, periods, freq)) >>),
            NoneObj, 1)

-----------------------------------------------------------------------------
(* convert_to_datetime *)

\* pd.to_datetime(column, errors="raise") raises
to_datetime_fails(column) ==
    /\ column.dtype = "object"
    /\ \E i \in 1..Len(column.values) : ~IsParseable(column.values[i])

\* pd.to_datetime(column, errors="raise") when it does not raise
to_datetime(column) ==
    IF is_datetime64_any_dtype(column)
    THEN column
    ELSE Column("datetime64[ns]",
                [i \in 1..Len(column.values) |-> ParseDatetime(column.values[i])])

\* mutant: the handler returns the copy as it is instead of raising
convert_to_datetime_swallow(df, id) ==
    IF ~IsDataFrame(df)
    THEN Raises(NoneAttributeError, df, 0)
    ELSE IF ~HasColumn(df, "timestamp")
    THEN Raises(Exception("KeyError", "missing required column timestamp"), df, 0)
    ELSE LET result == Copy(df, id) IN
         IF to_datetime_fails(GetColumn(result, "timestamp"))
         THEN Returns(result, df, 1)
         ELSE Returns(SetColumn(result, "timestamp",
                                to_datetime(GetColumn(result, "timestamp"))),
                      df, 1)

\* mutant: the conversion is assigned into df itself, without df.copy()
convert_to_datetime_inplace(df, id) ==
    IF ~IsDataFrame(df)
    THEN Raises(NoneAttributeError, df, 0)
    ELSE IF ~HasColumn(df, "timestamp")
    THEN Raises(Exception("KeyError", "missing required column timestamp"), df, 0)
    ELSE IF to_datetime_fails(GetColumn(df, "timestamp"))
    THEN Raises(Exception("ValueError", "datetime conversion error"), df, 0)
    ELSE LET result == SetColumn(df, "timestamp", to_datetime(GetColumn(df, "timestamp")))
         IN  Returns(result, result, 0)

convert_to_datetime(df, id) ==
    IF ~IsDataFrame(df)
    THEN Raises(NoneAttributeError, df, 0)
    ELSE IF ~HasColumn(df, "timestamp")
    THEN Raises(Exception("KeyError", "missing required column timestamp"), df, 0)
    ELSE LET result == Copy(df, id) IN
         IF to_datetime_fails(GetColumn(result, "timestamp"))
         THEN Raises(Exception("ValueError", "datetime conversion error"), df, 1)
         ELSE Returns(SetColumn(result, "timestamp",
                                to_datetime(GetColumn(result, "timestamp"))),
                      df, 1)

-----------------------------------------------------------------------------
(* extract_parts *)

\* mutant: the month column is read from .dt.day
Accessor_month_from_day(column, field) ==
    Column("int32",
        [i \in 1..Len(column.values) |->
            LET ts == column.values[i] IN
            CASE field = "day"     -> dt_day(ts)
              [] field = "month"   -> dt_day(ts)
              [] field = "year"    -> dt_year(ts)
              [] field = "hour"    -> dt_hour(ts)
              [] field = "weekday" -> dt_weekday(ts)
              [] field = "quarter" -> dt_quarter(ts)])

\* series.dt.<field> of a datetime64 column
Accessor(column, field) ==
    Column("int32",
        [i \in 1..Len(column.values) |->
            LET ts == column.values[i] IN
            CASE field = "day"     -> dt_day(ts)
              [] field = "month"   -> dt_month(ts)
              [] field = "year"    -> dt_year(ts)
              [] field = "hour"    -> dt_hour(ts)
              [] field = "weekday" -> dt_weekday(ts)
              [] field = "quarter" -> dt_quarter(ts)])

\* the columns extract_parts assigns, in the order it assigns them
PartNames == <<"day", "month", "year", "hour", "weekday", "quarter">>

\* new_df after the six assignments new_df[name] = df["timestamp"].dt.<name>
\* to the empty table pd.DataFrame()
AssignParts(id, ts_column) ==
    DataFrame(id, PartNames,
              [j \in 1..Len(PartNames) |-> Accessor(ts_column, PartNames[j])])

\* mutant: the type check raises ValueError
extract_parts_valueerror(df, id) ==
    IF ~IsDataFrame(df)
    THEN Raises(NoneAttributeError, df, 0)
    ELSE IF ~HasColumn(df, "timestamp")
    THEN Raises(Exception("KeyError", "missing required column timestamp"), df, 0)
    ELSE IF ~is_datetime64_any_dtype(GetColumn(df, "timestamp"))
    THEN Raises(Exception("ValueError", "column timestamp must be datetime"), df, 0)
    ELSE LET new_df == AssignParts(id, GetColumn(df, "timestamp"))
         IN  Returns(Copy(new_df, id + 1), df, 2)

extract_parts(df, id) ==
    IF ~IsDataFrame(df)
    THEN Raises(NoneAttributeError, df, 0)
    ELSE IF ~HasColumn(df, "timestamp")
    THEN Raises(Exception("KeyError", "missing required column timestamp"), df, 0)
    ELSE IF ~is_datetime64_any_dtype(GetColumn(df, "timestamp"))
    THEN Raises(Exception("TypeError", "column timestamp must be datetime"), df, 0)
    ELSE LET new_df == AssignParts(id, GetColumn(df, "timestamp"))
         IN  Returns(Copy(new_df, id + 1), df, 2)

-----------------------------------------------------------------------------
(* display *)

\* the chart kinds display accepts
PlotKinds == {"line", "bar", "barh", "kde", "density", "area", "hist", "box",
              "pie", "scatter", "hexbin"}

\* series.value_counts(): each distinct value with the number of its rows
value_counts(column) ==
    { <<v, Cardinality({i \in 1..Len(column.values) : column.values[i] = v})>> :
        v \in {column.values[i] : i \in 1..Len(column.values)} }

\* one invocation of the plotting collaborator
PlotCall(category, kind, counts) == [category |-> category, kind |-> kind, counts |-> counts]

\* mutant: the kind is checked before the category
display_kind_first(df, category, kind) ==
    IF ~IsDataFrame(df)
    THEN Raises(NoneAttributeError, df, 0)
    ELSE IF kind \notin PlotKinds
    THEN Raises(Exception("KeyError", "not a valid plot kind"), df, 0)
    ELSE IF ~HasColumn(df, category)
    THEN Raises(Exception("KeyError", "missing required column"), df, 0)
    ELSE Outcome(NoneObj, NoExc, df, <<>>,
                 << PlotCall(category, kind, value_counts(GetColumn(df, category))) >>, 0)

display(df, category, kind) ==
    IF ~IsDataFrame(df)
    THEN Raises(NoneAttributeError, df, 0)
    ELSE IF ~HasColumn(df, category)
    THEN Raises(Exception("KeyError", "missing required column"), df, 0)
    ELSE IF kind \notin PlotKinds
    THEN Raises(Exception("KeyError", "not a valid plot kind"), df, 0)
    ELSE Outcome(NoneObj, NoExc, df, <<>>,
                 << PlotCall(category, kind, value_counts(GetColumn(df, category))) >>, 0)

-----------------------------------------------------------------------------
(* Entry points and their inputs *)

\* all sequences over S of length at most n
SeqsUpTo(S, n) == UNION { [1..k -> S] : k \in 0..n }

\* the literals of example_main_synthetic
SyntheticStart == "2025-09-16 02:35:00"
SyntheticPeriods == 15
SyntheticFreq == "14h"

SyntheticArgs ==
    [start |-> SyntheticStart, periods |-> SyntheticPeriods, freq |-> SyntheticFreq]

\* the literals of the display call of main_read_file
FilePlotArgs == [category |-> "weekday", kind |-> "pie"]

NoFile == [exists |-> FALSE, lines |-> <<>>]

\* strings the parser accepts, and strings it rejects
GoodStrings == {"2025-09-16 02:35:00", "2024-02-29 23:59:00", "1969-12-31 00:00:00",
                "2023-12-31 12:00:00", "2024-01-01 00:00:00", "2025-06-30 18:30:00"}
BadStrings == {"not-a-date", "2025-02-30 10:00:00", "2025-13-01 00:00:00"}

\* lines of the input file: one field, or two
FileLines ==
    { <<c>> : c \in {"timestamp", "2025-09-16 02:35:00", "2024-02-29 23:59:00",
                     "not-a-date"} }
        \cup { <<"timestamp", "value">>, <<"2023-12-31 12:00:00", "7">> }

\* the file at the path: absent, or present with at most MaxLines lines
Files == {NoFile} \cup { [exists |-> TRUE, lines |-> l] : l \in SeqsUpTo(FileLines, MaxLines) }

\* column lists of the tables passed to a direct call
ColumnLists == { <<"timestamp">>, <<"date">>, <<"label", "timestamp">> }

\* a table of the given column list whose last column holds the given cells;
\* a leading column holds a text label per row
TableOf(columns, dtype, values) ==
    DataFrame(1, columns,
        [j \in 1..Len(columns) |->
            IF j = Len(columns) THEN Column(dtype, values)
            ELSE Column("object", [i \in 1..Len(values) |-> "x"])])

StringTables ==
    { TableOf(c, "object", v) :
        c \in ColumnLists, v \in SeqsUpTo(GoodStrings \cup BadStrings, MaxRows) }

DatetimeTables ==
    { TableOf(c, "datetime64[ns]", v) :
        c \in ColumnLists,
        v \in SeqsUpTo({ParseDatetime(s) : s \in GoodStrings}, MaxRows) }

\* tables passed to a direct call of display: feature tables
FeatureTables ==
    { extract_parts(TableOf(<<"timestamp">>, "datetime64[ns]", v), 2).ret :
        v \in SeqsUpTo({ParseDatetime(s) : s \in GoodStrings}, MaxRows) }

Categories == {"weekday", "quarter", "hour", "timestamp", "nonexistent"}

Kinds == PlotKinds \cup {"triangle"}

NoPlotArgs == [category |-> "", kind |-> ""]

NoGenArgs == [start |-> "", periods |-> 0, freq |-> ""]


InitCommon ==
    /\ exc = NoExc
    /\ stdout = <<>>
    /\ plots = <<>>
    /\ calls = <<>>

\* python change-timeseries.py --file <path>
InitMainReadFile ==
    /\ entry = "main_read_file"
    /\ pc = "load"
    /\ fs \in Files
    /\ genArgs = NoGenArgs
    /\ plotArgs = FilePlotArgs
    /\ input_df = Unbound
    /\ transformed_df = Unbound
    /\ result_df = Unbound
    /\ nextId = 1

\* python change-timeseries.py --example_synthetic
InitExampleMainSynthetic ==
    /\ entry = "example_main_synthetic"
    /\ pc = "create"
    /\ fs = NoFile
    /\ genArgs = SyntheticArgs
    /\ plotArgs = NoPlotArgs
    /\ input_df = Unbound
    /\ transformed_df = Unbound
    /\ result_df = Unbound
    /\ nextId = 1

\* convert_to_datetime(df) called by a client of the module
InitConvert ==
    /\ entry = "convert_to_datetime"
    /\ pc = "convert"
    /\ fs = NoFile
    /\ genArgs = NoGenArgs
    /\ plotArgs = NoPlotArgs
    /\ input_df \in StringTables \cup DatetimeTables
    /\ transformed_df = Unbound
    /\ result_df = Unbound
    /\ nextId = 2

\* extract_parts(df) called by a client of the module
InitExtract ==
    /\ entry = "extract_parts"
    /\ pc = "extract"
    /\ fs = NoFile
    /\ genArgs = NoGenArgs
    /\ plotArgs = NoPlotArgs
    /\ input_df = Unbound
    /\ transformed_df \in StringTables \cup DatetimeTables
    /\ result_df = Unbound
    /\ nextId = 2

\* display(df, category, kind) called by a client of the module
InitDisplay ==
    /\ entry = "display"
    /\ pc = "display"
    /\ fs = NoFile
    /\ genArgs = NoGenArgs
    /\ plotArgs \in [category : Categories, kind : Kinds]
    /\ input_df = Unbound
    /\ transformed_df = Unbound
    /\ result_df \in FeatureTables
    /\ nextId = 4

Init ==
    /\ InitCommon
    /\ \/ InitMainReadFile
       \/ InitExampleMainSynthetic
       \/ InitConvert
       \/ InitExtract
       \/ InitDisplay

-----------------------------------------------------------------------------
(* The calls of a session *)

\* mutant: main_read_file calls display before print
NextPc_display_first(e, p) ==
    CASE e = "main_read_file" /\ p = "load"            -> "convert"
      [] e = "example_main_synthetic" /\ p = "create"  -> "convert"
      [] e \in {"main_read_file", "example_main_synthetic"} /\ p = "convert" -> "extract"
      [] e = "example_main_synthetic" /\ p = "extract" -> "print"
      [] e = "main_read_file" /\ p = "extract"         -> "display"
      [] e = "main_read_file" /\ p = "display"         -> "print"
      [] OTHER -> "done"

\* the statement that follows a call that returned
NextPc(e, p) ==
    CASE e = "main_read_file" /\ p = "load"            -> "convert"
      [] e = "example_main_synthetic" /\ p = "create"  -> "convert"
      [] e \in {"main_read_file", "example_main_synthetic"} /\ p = "convert" -> "extract"
      [] e \in {"main_read_file", "example_main_synthetic"} /\ p = "extract" -> "print"
      [] e = "main_read_file" /\ p = "print"           -> "display"
      [] OTHER -> "done"

\* a call's effect on the session apart from the locals it assigns: an
\* exception propagates to the top level and ends the session
Finish(fn, arg, r) ==
    /\ exc' = r.exc
    /\ pc' = IF r.exc # NoExc THEN "raised" ELSE NextPc(entry, pc)
    /\ stdout' = stdout \o r.out
    /\ plots' = plots \o r.plt
    /\ calls' = Append(calls, [fn |-> fn, arg |-> arg])
    /\ nextId' = nextId + r.allocs
    /\ UNCHANGED <<entry, fs, genArgs, plotArgs>>

\* input_df = load_dataframe_from_file(input_csv)
LoadFromFile ==
    /\ pc = "load"
    /\ LET r == load_dataframe_from_file(fs, nextId) IN
       /\ input_df' = IF r.exc = NoExc THEN r.ret ELSE input_df
       /\ Finish("load_dataframe_from_file", NoneObj, r)
    /\ UNCHANGED <<transformed_df, result_df>>

\* input_df = create_periodic_dataframe(start_timedate_point=, periods=, freq=)
CreatePeriodic ==
    /\ pc = "create"
    /\ LET r == create_periodic_dataframe(genArgs.start, genArgs.periods,
                                          genArgs.freq, nextId) IN
       /\ input_df' = IF r.exc = NoExc THEN r.ret ELSE input_df
       /\ Finish("create_periodic_dataframe", NoneObj, r)
    /\ UNCHANGED <<transformed_df, result_df>>

\* transformed_df = convert_to_datetime(input_df)
ConvertToDatetime ==
    /\ pc = "convert"
    /\ LET r == convert_to_datetime(input_df, nextId) IN
       /\ input_df' = r.arg
       /\ transformed_df' = IF r.exc = NoExc THEN r.ret ELSE transformed_df
       /\ Finish("convert_to_datetime", input_df, r)
    /\ UNCHANGED result_df

\* result_df = extract_parts(transformed_df)
ExtractParts ==
    /\ pc = "extract"
    /\ LET r == extract_parts(transformed_df, nextId) IN
       /\ transformed_df' = r.arg
       /\ result_df' = IF r.exc = NoExc THEN r.ret ELSE result_df
       /\ Finish("extract_parts", transformed_df, r)
    /\ UNCHANGED input_df

\* print(result_df)
PrintResult ==
    /\ pc = "print"
    /\ Finish("print", result_df,
              Outcome(NoneObj, NoExc, result_df,
                      << [text |-> "table", table |-> result_df] >>, <<>>, 0))
    /\ UNCHANGED <<input_df, transformed_df, result_df>>

\* display(result_df, category, kind)
Display ==
    /\ pc = "display"
    /\ LET r == display(result_df, plotArgs.category, plotArgs.kind) IN
       /\ result_df' = r.arg
       /\ Finish("display", result_df, r)
    /\ UNCHANGED <<input_df, transformed_df>>

Next ==
    \/ LoadFromFile
    \/ CreatePeriodic
    \/ ConvertToDatetime
    \/ ExtractParts
    \/ PrintResult
    \/ Display

Spec == Init /\ [][Next]_vars

-----------------------------------------------------------------------------
(* The synthetic pipeline with the generator's arguments varied: the calls   *)
(* of example_main_synthetic, started from arguments other than its          *)
(* literals, so that the generator's failure path is taken                   *)

GenStarts == {"2025-09-16 02:35:00", "2024-02-29 23:59:00", "2023-12-31 12:00:00",
              "not-a-date", "2025-02-30 10:00:00"}

GenFreqs == {"14h", "1D", "90min", "fortnight"}

InitSyntheticArgs ==
    /\ InitCommon
    /\ entry = "example_main_synthetic"
    /\ pc = "create"
    /\ fs = NoFile
    /\ genArgs \in [start : GenStarts, periods : (-1)..MaxPeriods, freq : GenFreqs]
    /\ plotArgs = NoPlotArgs
    /\ input_df = Unbound
    /\ transformed_df = Unbound
    /\ result_df = Unbound
    /\ nextId = 1

NextSynthetic ==
    \/ CreatePeriodic
    \/ ConvertToDatetime
    \/ ExtractParts
    \/ PrintResult

\* a Python process runs its next statement: the session never stops midway
SpecSyntheticArgs ==
    InitSyntheticArgs /\ [][NextSynthetic]_vars /\ WF_vars(NextSynthetic)

-----------------------------------------------------------------------------
(* Vocabulary of the properties *)

Called(fn) == \E i \in 1..Len(calls) : calls[i].fn = fn

\* the argument passed to the (only) call of fn
ArgOf(fn) == calls[CHOOSE i \in 1..Len(calls) : calls[i].fn = fn].arg

LastCall == calls[Len(calls)]

\* the value of column `name` in row i
Cell(df, name, i) == GetColumn(df, name).values[i]

\* two tables with the same identity, columns, column types and values
SameTable(a, b) ==
    /\ a.type = b.type
    /\ a.id = b.id
    /\ a.columns = b.columns
    /\ Len(a.cols) = Len(b.cols)
    /\ \A j \in 1..Len(a.cols) :
        /\ a.cols[j].dtype = b.cols[j].dtype
        /\ a.cols[j].values = b.cols[j].values

\* a table of exactly the six part columns, all of n rows
IsFeatureTable(df, n) ==
    /\ IsDataFrame(df)
    /\ df.columns = <<"day", "month", "year", "hour", "weekday", "quarter">>
    /\ \A j \in 1..6 : Len(df.cols[j].values) = n

\* 1970-01-01 was a Thursday: the weekday (0 = Monday) of a day of the epoch
EpochWeekday(days) == (days + 3) % 7

\* row i of the feature table holds the calendar fields y-m-d h
RowIs(df, i, y, m, d, h) ==
    /\ Cell(df, "year", i) = y
    /\ Cell(df, "month", i) = m
    /\ Cell(df, "day", i) = d
    /\ Cell(df, "hour", i) = h
    /\ Cell(df, "weekday", i) = EpochWeekday(DaysFromCivil(y, m, d))

\* row i of the feature table is the calendar reading of the datetime64 value ts
RowReads(df, i, ts) ==
    /\ Cell(df, "hour", i) \in 0..23
    /\ DaysFromCivil(Cell(df, "year", i), Cell(df, "month", i), Cell(df, "day", i))
            * MinutesPerDay + Cell(df, "hour", i) * MinutesPerHour + (ts % MinutesPerHour)
       = ts
    /\ Cell(df, "month", i) \in 1..12
    /\ Cell(df, "day", i) \in 1..DaysInMonth(Cell(df, "year", i), Cell(df, "month", i))
    /\ Cell(df, "weekday", i) = EpochWeekday(ts \div MinutesPerDay)

IsPipeline == entry \in {"main_read_file", "example_main_synthetic"}

-----------------------------------------------------------------------------
(* C1 *)

\* the raw table of a pipeline has a single column "timestamp" whose values
\* are all parseable strings, or already datetime64 values
AllParseable(raw) ==
    /\ IsDataFrame(raw)
    /\ raw.columns = <<"timestamp">>
    /\ \/ is_datetime64_any_dtype(raw.cols[1])
       \/ /\ raw.cols[1].dtype = "object"
          /\ \A i \in 1..NRows(raw) : IsParseable(raw.cols[1].values[i])

\* C1: when a pipeline has run convert_to_datetime and then extract_parts on a
\* single-column raw table whose values are all parseable, the feature table
\* has as many rows as the raw table, row i holds the calendar fields of raw
\* row i, and in every row quarter = ((month - 1) div 3) + 1.
C1_RowsPreserved ==
    (IsPipeline /\ Called("convert_to_datetime") /\ Called("extract_parts")
        /\ AllParseable(ArgOf("convert_to_datetime")))
    =>
    LET raw == ArgOf("convert_to_datetime").cols[1] IN
    /\ exc = NoExc
    /\ IsFeatureTable(result_df, Len(raw.values))
    /\ \A i \in 1..Len(raw.values) :
        /\ IF raw.dtype = "object"
           THEN LET t == Tokens(raw.values[i]) IN
                RowIs(result_df, i, t[1], t[2], t[3], t[4])
           ELSE RowReads(result_df, i, raw.values[i])
        /\ Cell(result_df, "quarter", i) = ((Cell(result_df, "month", i) - 1) \div 3) + 1

\* a file pipeline has extracted two rows from two different strings
C1_Witness ==
    /\ entry = "main_read_file"
    /\ Called("extract_parts")
    /\ AllParseable(ArgOf("convert_to_datetime"))
    /\ NRows(ArgOf("convert_to_datetime")) = 2
    /\ Cell(ArgOf("convert_to_datetime"), "timestamp", 1)
         # Cell(ArgOf("convert_to_datetime"), "timestamp", 2)
    /\ NRows(result_df) = 2

-----------------------------------------------------------------------------
(* C2 *)

\* C2: after extract_parts has returned, for every datetime value of its input
\* the row derived from it has weekday in 0..6 with 0 = Monday ... 6 = Sunday,
\* quarter in 1..4, hour in 0..23, month in 1..12 and day in 1..31.
C2_FieldRanges ==
    (Called("extract_parts") /\ IsDataFrame(result_df))
    =>
    LET input == GetColumn(ArgOf("extract_parts"), "timestamp") IN
    /\ IsFeatureTable(result_df, Len(input.values))
    /\ \A i \in 1..Len(input.values) :
        /\ Cell(result_df, "weekday", i) \in 0..6
        /\ Cell(result_df, "weekday", i) = EpochWeekday(input.values[i] \div MinutesPerDay)
        /\ Cell(result_df, "quarter", i) \in 1..4
        /\ Cell(result_df, "hour", i) \in 0..23
        /\ Cell(result_df, "month", i) \in 1..12
        /\ Cell(result_df, "day", i) \in 1..31

\* extract_parts has read a Sunday in the fourth quarter and a date before 1970
C2_Witness ==
    /\ entry = "extract_parts"
    /\ IsDataFrame(result_df)
    /\ NRows(result_df) = 2
    /\ Cell(result_df, "weekday", 1) = 6
    /\ Cell(result_df, "quarter", 1) = 4
    /\ Cell(result_df, "day", 1) = 31
    /\ Cell(result_df, "year", 2) = 1969

-----------------------------------------------------------------------------
(* C3 *)

\* C3: the run of example_main_synthetic never fails, and once extract_parts
\* has returned the feature table has exactly 15 rows, row i (0-based) holding
\* the calendar fields of 2025-09-16 02:35 + i * 14 hours: row 0 is day 16,
\* month 9, year 2025, hour 2, weekday 1, quarter 3, and row 1 is hour 16 with
\* the day, weekday and quarter of row 0.
C3_SyntheticTable ==
    entry = "example_main_synthetic"
    =>
    /\ exc = NoExc
    /\ Called("extract_parts") =>
        /\ IsFeatureTable(result_df, 15)
        /\ \A i \in 0..14 :
            /\ RowReads(result_df, i + 1,
                        (DaysFromCivil(2025, 9, 16) * 24 + 2 + i * 14) * 60 + 35)
            /\ Cell(result_df, "quarter", i + 1)
                 = ((Cell(result_df, "month", i + 1) - 1) \div 3) + 1
        /\ RowIs(result_df, 1, 2025, 9, 16, 2)
        /\ Cell(result_df, "weekday", 1) = 1
        /\ Cell(result_df, "quarter", 1) = 3
        /\ RowIs(result_df, 2, 2025, 9, 16, 16)
        /\ Cell(result_df, "weekday", 2) = 1
        /\ Cell(result_df, "quarter", 2) = 3

\* the synthetic run has printed its table of 15 rows
C3_Witness ==
    /\ entry = "example_main_synthetic"
    /\ pc = "done"
    /\ Len(stdout) = 1
    /\ NRows(stdout[1].table) = 15

-----------------------------------------------------------------------------
(* C4 *)

\* the file decodes as a table
Decodes(file) ==
    /\ file.exists
    /\ Len(file.lines) > 0
    /\ \A i \in 1..Len(file.lines) : Len(file.lines[i]) <= Len(file.lines[1])

\* C4: load_dataframe_from_file raises FileNotFoundError whenever the path does
\* not exist, raises the one-column ValueError whenever the file decodes to a
\* table of other than one column, raises the CSV-read ValueError when the file
\* does not decode, the three errors being pairwise different; it returns a
\* table exactly when the file exists, decodes and has one column, and that
\* table's only column is named "timestamp".
C4_LoadOutcomes ==
    Called("load_dataframe_from_file")
    =>
    LET failed   == Len(calls) = 1 /\ pc = "raised"
        notFound == Exception("FileNotFoundError", "file not found")
        shape    == Exception("ValueError", "expected exactly one column")
        parse    == Exception("ValueError", "CSV read error")
    IN
    /\ notFound # shape /\ notFound # parse /\ shape # parse
    /\ ~fs.exists => (failed /\ exc = notFound)
    /\ (Decodes(fs) /\ Len(fs.lines[1]) # 1) => (failed /\ exc = shape)
    /\ (fs.exists /\ ~Decodes(fs)) => (failed /\ exc = parse)
    /\ failed => input_df = Unbound
    /\ IsDataFrame(input_df) <=> (Decodes(fs) /\ Len(fs.lines[1]) = 1)
    /\ IsDataFrame(input_df) =>
        /\ input_df.columns = <<"timestamp">>
        /\ Len(input_df.cols) = 1
        /\ input_df.cols[1].values
             = [i \in 1..(Len(fs.lines) - 1) |-> fs.lines[i + 1][1]]

\* a two-column file has been refused
C4_Witness ==
    /\ Called("load_dataframe_from_file")
    /\ Decodes(fs)
    /\ Len(fs.lines[1]) = 2
    /\ pc = "raised"
    /\ exc.type = "ValueError"

-----------------------------------------------------------------------------
(* C5 *)

\* C5: right after convert_to_datetime, called on a table: if the table has no
\* column "timestamp" the call raised the missing-column KeyError; if its
\* "timestamp" column is text with at least one unparseable value the call
\* raised ValueError; in both cases it returned no table (transformed_df was
\* not assigned), so no partly converted table exists.
C5_ConvertErrors ==
    (Len(calls) > 0 /\ LastCall.fn = "convert_to_datetime" /\ IsDataFrame(LastCall.arg))
    =>
    LET df == LastCall.arg IN
    /\ ~HasColumn(df, "timestamp") =>
        /\ exc = Exception("KeyError", "missing required column timestamp")
        /\ pc = "raised"
        /\ transformed_df = Unbound
    /\ (/\ HasColumn(df, "timestamp")
        /\ GetColumn(df, "timestamp").dtype = "object"
        /\ \E i \in 1..NRows(df) : ~IsParseable(Cell(df, "timestamp", i))) =>
        /\ exc.type = "ValueError"
        /\ pc = "raised"
        /\ transformed_df = Unbound

\* a table whose second value is "not-a-date", after a good first value, was refused
C5_Witness ==
    /\ Len(calls) > 0
    /\ LastCall.fn = "convert_to_datetime"
    /\ IsDataFrame(LastCall.arg)
    /\ HasColumn(LastCall.arg, "timestamp")
    /\ GetColumn(LastCall.arg, "timestamp").dtype = "object"
    /\ NRows(LastCall.arg) = 2
    /\ IsParseable(Cell(LastCall.arg, "timestamp", 1))
    /\ Cell(LastCall.arg, "timestamp", 2) = "not-a-date"
    /\ exc.type = "ValueError"

-----------------------------------------------------------------------------
(* C6 *)

\* C6: right after extract_parts, called on a table: if the "timestamp" column
\* is present but not datetime64 the call raised TypeError; if it is absent the
\* call raised KeyError; in both cases it returned no feature table.
C6_ExtractErrors ==
    (Len(calls) > 0 /\ LastCall.fn = "extract_parts" /\ IsDataFrame(LastCall.arg))
    =>
    LET df == LastCall.arg IN
    /\ (HasColumn(df, "timestamp") /\ GetColumn(df, "timestamp").dtype # "datetime64[ns]") =>
        /\ exc.type = "TypeError"
        /\ pc = "raised"
        /\ result_df = Unbound
    /\ ~HasColumn(df, "timestamp") =>
        /\ exc.type = "KeyError"
        /\ pc = "raised"
        /\ result_df = Unbound

\* a table whose "timestamp" column is still text was refused
C6_Witness ==
    /\ Len(calls) > 0
    /\ LastCall.fn = "extract_parts"
    /\ HasColumn(LastCall.arg, "timestamp")
    /\ GetColumn(LastCall.arg, "timestamp").dtype = "object"
    /\ NRows(LastCall.arg) > 0
    /\ exc.type = "TypeError"

-----------------------------------------------------------------------------
(* C7 *)

\* the chart kinds the claim lists, by the names display gives them
\* (horizontal-bar is "barh", histogram is "hist")
ClaimedKinds == {"line", "bar", "barh", "kde", "density", "area", "hist", "box",
                 "pie", "scatter", "hexbin"}

InvalidKindError == Exception("KeyError", "not a valid plot kind")

MissingColumnError == Exception("KeyError", "missing required column")

AfterDisplay == Len(calls) > 0 /\ LastCall.fn = "display" /\ IsDataFrame(LastCall.arg)

\* C7 as claimed: right after display, the call raised the invalid-kind error
\* whenever kind is outside the fixed set, and the missing-column error
\* whenever category is no column of the table; the two errors differ, and in
\* either case the plotting collaborator was not invoked.
C7_AsClaimed ==
    AfterDisplay
    =>
    /\ InvalidKindError # MissingColumnError
    /\ plotArgs.kind \notin ClaimedKinds => (exc = InvalidKindError /\ plots = <<>>)
    /\ ~HasColumn(LastCall.arg, plotArgs.category) =>
            (exc = MissingColumnError /\ plots = <<>>)

\* C7 as amended: right after display, the call raised the invalid-kind
\* KeyError whenever kind is outside the fixed set and category is a column of
\* the table, and the missing-column KeyError whenever category is no column
\* of the table, whatever the kind; both are KeyError and differ in their
\* message only; in either case the plotting collaborator was not invoked.
C7_DisplayErrors ==
    AfterDisplay
    =>
    LET badKind == plotArgs.kind \notin ClaimedKinds
        noColumn == ~HasColumn(LastCall.arg, plotArgs.category)
    IN
    /\ InvalidKindError.type = MissingColumnError.type
    /\ InvalidKindError.msg # MissingColumnError.msg
    /\ (badKind /\ ~noColumn) => (exc = InvalidKindError /\ pc = "raised" /\ plots = <<>>)
    /\ noColumn => (exc = MissingColumnError /\ pc = "raised" /\ plots = <<>>)

\* display("nonexistent" category, "triangle" kind) has raised
C7_Witness ==
    /\ AfterDisplay
    /\ entry = "display"
    /\ plotArgs.kind = "triangle"
    /\ plotArgs.category = "nonexistent"
    /\ exc = MissingColumnError
    /\ plots = <<>>

-----------------------------------------------------------------------------
(* C8 *)

FileStages == <<"load_dataframe_from_file", "convert_to_datetime", "extract_parts",
                "print", "display">>

\* what a file-mode run has done so far
C8_State ==
    entry = "main_read_file"
    =>
    /\ Len(calls) <= 5
    /\ \A i \in 1..Len(calls) : calls[i].fn = FileStages[i]
    /\ pc = "raised" <=> exc # NoExc
    /\ pc = "done" => Len(calls) = 5
    /\ Len(stdout) = (IF Len(calls) >= 4 THEN 1 ELSE 0)
    /\ Len(plots) = (IF Len(calls) = 5 /\ exc = NoExc THEN 1 ELSE 0)
    /\ \A i \in 1..Len(stdout) : stdout[i].text = "table" /\ stdout[i].table = result_df
    /\ \A i \in 1..Len(plots) :
        /\ plots[i].category = "weekday"
        /\ plots[i].kind = "pie"
        /\ plots[i].counts = value_counts(GetColumn(stdout[1].table, "weekday"))

\* C8: in a file-mode run the calls made are, in order, a prefix of load,
\* convert, extract, print, display; a run that has raised makes no further
\* step, so nothing is printed or plotted after a failure; the table is
\* printed only by the fourth call, and the one chart, of "weekday" with kind
\* "pie", is rendered only by the fifth, after the table was printed.
C8_FileRunOrder ==
    /\ []C8_State
    /\ [][entry = "main_read_file" =>
            /\ exc = NoExc
            /\ Len(calls') = Len(calls) + 1
            /\ (exc' # NoExc => (stdout' = stdout /\ plots' = plots))]_vars

\* a file-mode run failed in convert_to_datetime: nothing printed, nothing plotted
C8_Witness ==
    /\ entry = "main_read_file"
    /\ Len(calls) = 2
    /\ pc = "raised"
    /\ exc.type = "ValueError"
    /\ stdout = <<>>
    /\ plots = <<>>

-----------------------------------------------------------------------------
(* C9 *)

\* C9: once convert_to_datetime has been called, whether it returned or raised,
\* its argument table has the identity, columns, column types and values it was
\* passed with (a text "timestamp" column is still text), and a returned table
\* is another object; the same holds of extract_parts, whose returned table is
\* another object that has no "timestamp" column.
C9_InputsUntouched ==
    /\ (Called("convert_to_datetime") /\ IsDataFrame(ArgOf("convert_to_datetime"))) =>
        /\ SameTable(input_df, ArgOf("convert_to_datetime"))
        /\ IsDataFrame(transformed_df) => transformed_df.id # input_df.id
    /\ (Called("extract_parts") /\ IsDataFrame(ArgOf("extract_parts"))) =>
        /\ SameTable(transformed_df, ArgOf("extract_parts"))
        /\ IsDataFrame(result_df) =>
            /\ result_df.id # transformed_df.id
            /\ ~HasColumn(result_df, "timestamp")

\* convert_to_datetime has returned a datetime64 table for a text table of two
\* rows, which is still text
C9_Witness ==
    /\ entry = "convert_to_datetime"
    /\ pc = "done"
    /\ NRows(input_df) = 2
    /\ GetColumn(input_df, "timestamp").dtype = "object"
    /\ GetColumn(transformed_df, "timestamp").dtype = "datetime64[ns]"

-----------------------------------------------------------------------------
(* C10 *)

\* arguments the generator cannot build a range from
GenFails(a) ==
    \/ a.start \in BadStrings
    \/ a.freq \notin {"14h", "1D", "90min"}
    \/ a.periods < 0

\* what a synthetic run with any generator arguments has done so far
C10_State ==
    Called("create_periodic_dataframe")
    =>
    /\ GenFails(genArgs) =>
        /\ input_df = NoneObj
        /\ stdout = <<Diagnostic>>
        /\ Len(calls) = 1 => (exc = NoExc /\ pc = "convert")
        /\ Len(calls) <= 2
        /\ Len(calls) = 2 =>
            /\ LastCall.fn = "convert_to_datetime"
            /\ LastCall.arg = NoneObj
            /\ exc # NoExc
            /\ pc = "raised"
        /\ transformed_df = Unbound
        /\ result_df = Unbound
    /\ ~GenFails(genArgs) =>
        /\ IsDataFrame(input_df)
        /\ input_df.columns = <<"timestamp">>
        /\ Len(input_df.cols) = 1
        /\ is_datetime64_any_dtype(input_df.cols[1])
        /\ Len(input_df.cols[1].values) = genArgs.periods

====
